---- MODULE Spec2Model ----
(***************************************************************************)
(* State-machine model of python/ma/node.py: the identity wrapper Node,    *)
(* the tagged specialisation System and the tag -> class registry Factory, *)
(* on top of the external scene graph they drive through cmds / om.        *)
(*                                                                         *)
(* Strings are modelled by their structure.  A node name "a:b:duck1" is    *)
(* the record [pfx, ns, base, num]: ns = <<"a","b">> is the namespace      *)
(* part, base = "duck" and num = 1 the leaf (num = 0: no trailing digits), *)
(* pfx the DAG path prefix partialPathName adds when the leaf alone is     *)
(* ambiguous (NoPfx: none, 0: the world "|", h: the parent node h).        *)
(* base = "" with ns # <<>> is a string ending with the separator ":",     *)
(* base = "" with ns = <<>> is the empty string.                           *)
(***************************************************************************)
EXTENDS Integers, Sequences, FiniteSets, TLC

\* ---------------------------------------------------------------- bounds
MaxNodes == 2        \* external nodes ever created in one behaviour
MaxWrappers == 2     \* wrapper objects the caller holds at one time

\* ------------------------------------------------------------- constants
SYSTEM_TYPE_ATTR_NAME == "system_type"
DEFAULT_NAME == "grp"
NODETYPE == "transform"

Handles == 1..MaxNodes
World == 0           \* the scene's root: the parent of a node created with parent=None
NoNode == 0          \* no scene object: the None of name_to_node
NoPfx == -1
NoAttr == "<no attribute>"   \* the node has no system_type attribute
None == "<None>"

\* ------------------------------------------------------------ class graph
\* Node and System are the classes of node.py.  Asset(System), Prop(Asset)
\* and AssetR(System) stand for client subclasses; AssetR is a redefinition
\* of Asset (a reloaded module): another class object with the same __name__.
Classes == {"Node", "System", "Asset", "Prop", "AssetR"}
ClientClasses == {"Asset", "Prop", "AssetR"}

ClassName(c) == IF c = "AssetR" THEN "Asset" ELSE c

Base(c) ==
    CASE c = "System" -> "Node"
      [] c = "Asset" -> "System"
      [] c = "AssetR" -> "System"
      [] c = "Prop" -> "Asset"
      [] OTHER -> None

IsSystemClass(c) == c \in {"System", "Asset", "Prop", "AssetR"}

VARIABLES
    scene,       \* the external scene graph (see InitScene for its fields)
    wrappers,    \* the Node instances the caller holds: [cls, str, dependnode]
    loaded,      \* the class objects defined so far, in definition order
    registry,    \* the Factory (a dict): tag -> class, None where absent
    keyed,       \* a dict the caller keys by wrappers: {[cls, str, h]}
    made,        \* history: handle -> the class whose create made the node
    last         \* the last call made, with its outcome

vars == <<scene, wrappers, loaded, registry, keyed, made, last>>

\* ------------------------------------------------------------- strings
Str(ns, base, num) == [pfx |-> NoPfx, ns |-> ns, base |-> base, num |-> num]
EmptyStr == Str(<<>>, "", 0)

\* value[-1] == sep  (an IndexError on the empty string is the caller's case)
EndsWithSep(v) == v.ns # <<>> /\ v.base = ""

\* value += DEFAULT_NAME, for a value that ends with the separator
AppendDefault(v) == [v EXCEPT !.base = DEFAULT_NAME]

\* value.rsplit(sep, 1)[0] of a value that holds a separator
RSplitHead(v) == v.ns

\* the node's own name, without a path: what the scene stores per node
OwnName(v) == [ns |-> v.ns, base |-> v.base, num |-> v.num]

\* ------------------------------------------------- external scene graph
\* G is a scene: nodes (live handles), created (handles issued), name,
\* parent, attr (handle -> system_type value or NoAttr), namespaces (besides
\* the root namespace <<>>), selection (a sequence of handles).
NoName == [ns |-> <<>>, base |-> "", num |-> 0]

InitScene ==
    [nodes |-> {}, created |-> 0,
     name |-> [h \in Handles |-> NoName],
     parent |-> [h \in Handles |-> World],
     attr |-> [h \in Handles |-> NoAttr],
     namespaces |-> {}, selection |-> <<>>]

\* the uuid the scene issues for node h: opaque, never reused, never changed
Uuid(h) == <<"uuid", h>>

NsPrefixes(ns) == {SubSeq(ns, 1, k) : k \in 1..Len(ns)}

IsPrefix(p, s) == Len(p) <= Len(s) /\ SubSeq(s, 1, Len(p)) = p

\* s with its prefix src replaced by dst
Rebase(s, src, dst) == dst \o SubSeq(s, Len(src) + 1, Len(s))

Clash(G, par, nm, except) ==
    \E m \in G.nodes \ except : G.parent[m] = par /\ G.name[m] = nm

\* Maya's clash resolution among siblings: the name itself when it is free,
\* otherwise the name with the next free trailing number
UniqueName(G, par, nm, except) ==
    IF ~Clash(G, par, nm, except) THEN nm
    ELSE LET free == {k \in (nm.num + 1)..(nm.num + MaxNodes + 1) :
                        ~Clash(G, par, [nm EXCEPT !.num = k], except)}
         IN [nm EXCEPT !.num = CHOOSE k \in free : \A j \in free : k <= j]

RECURSIVE Descendants(_, _)
Descendants(G, S) ==
    LET kids == {m \in G.nodes \ S : G.parent[m] \in S}
    IN IF kids = {} THEN S ELSE Descendants(G, S \cup kids)

RemoveFromSeq(s, S) ==
    LET Keep(x) == x \notin S IN SelectSeq(s, Keep)

\* MFnDagNode.partialPathName(): the shortest path naming the node uniquely
PartialPathName(G, h) ==
    LET amb == \E m \in G.nodes \ {h} : G.name[m] = G.name[h]
    IN [pfx |-> IF amb THEN G.parent[h] ELSE NoPfx,
        ns |-> G.name[h].ns, base |-> G.name[h].base, num |-> G.name[h].num]

\* sep in <string>: the namespace part of the leaf or of the path prefix
HasSep(G, v) ==
    \/ v.ns # <<>>
    \/ v.pfx \in Handles /\ G.name[v.pfx].ns # <<>>

\* the live nodes a name string matches
Matches(G, v) ==
    {h \in G.nodes : /\ G.name[h] = OwnName(v)
                     /\ v.pfx # NoPfx => G.parent[h] = v.pfx}

\* ------------------------------------------------------- cmds (the scene)
\* An outcome of a call is [g, exc, ret]: the scene it leaves, the exception
\* it raises ("none", "stale" for the RuntimeError of Node.fn, "maya" for a
\* failure of a scene command, "index" for an IndexError) and its result.
Ok(G, ret) == [g |-> G, exc |-> "none", ret |-> ret]
Raise(G, exc) == [g |-> G, exc |-> exc, ret |-> None]

\* cmds.createNode(type, name=, parent=, ss=1): a new node under par; a name
\* clash among the siblings is resolved by the scene, the namespace of the
\* name is created when it does not exist, the selection is left alone (ss).
CmdsCreateNode(G, v, par) ==
    LET h == G.created + 1
    IN [G EXCEPT !.nodes = @ \cup {h}, !.created = h,
                 !.name[h] = UniqueName(G, par, OwnName(v), {}),
                 !.parent[h] = par, !.attr[h] = NoAttr,
                 !.namespaces = @ \cup NsPrefixes(v.ns)]

\* cmds.delete(name): the node and its DAG descendants leave the scene (and
\* the selection).  The attribute data stays with the deleted object.
CmdsDelete(G, h) ==
    LET gone == Descendants(G, {h})
    IN [G EXCEPT !.nodes = @ \ gone,
                 !.name = [x \in Handles |-> IF x \in gone THEN NoName ELSE @[x]],
                 !.parent = [x \in Handles |-> IF x \in gone THEN World ELSE @[x]],
                 !.selection = RemoveFromSeq(@, gone)]

\* cmds.rename(name, value): value is relative to the root namespace
CmdsRename(G, h, v) ==
    [G EXCEPT !.name[h] = UniqueName(G, G.parent[h], OwnName(v), {h}),
              !.namespaces = @ \cup NsPrefixes(v.ns)]

\* cmds.attributeQuery(attr, n=obj, ex=1)
CmdsAttributeExists(G, h) == G.attr[h] # NoAttr

\* cmds.addAttr(obj, ln=attr, dt='string'): a string attribute, empty at
\* first; fails when the node has an attribute of that name
CmdsAddAttr(G, h) ==
    IF G.attr[h] # NoAttr THEN Raise(G, "maya")
    ELSE Ok([G EXCEPT !.attr[h] = ""], None)

\* cmds.setAttr(obj.attr, value, type='string'); fails without the attribute
CmdsSetAttr(G, h, value) ==
    IF G.attr[h] = NoAttr THEN Raise(G, "maya")
    ELSE Ok([G EXCEPT !.attr[h] = value], None)

\* cmds.getAttr(obj.attr); fails without the attribute
CmdsGetAttr(G, h) ==
    IF G.attr[h] = NoAttr THEN Raise(G, "maya") ELSE Ok(G, G.attr[h])

\* cmds.select(name): the selection becomes the node alone
CmdsSelect(G, h) == [G EXCEPT !.selection = <<h>>]

\* cmds.namespaceInfo(ns, ls=1): the nodes and the child namespaces of ns
NamespaceContents(G, ns) ==
    {<<"node", h>> : h \in {x \in G.nodes : G.name[x].ns = ns}}
    \cup {<<"ns", x>> : x \in {y \in G.namespaces :
                                Len(y) = Len(ns) + 1 /\ IsPrefix(ns, y)}}

\* cmds.namespace(ex=ns)
CmdsNamespaceExists(G, ns) == ns \in G.namespaces

\* cmds.namespace(add=ns)
CmdsNamespaceAdd(G, ns) == [G EXCEPT !.namespaces = @ \cup NsPrefixes(ns)]

\* cmds.namespace(rm=ns) of an empty namespace
CmdsNamespaceRemove(G, ns) == [G EXCEPT !.namespaces = @ \ {ns}]

\* the nodes in src or below it
Inside(G, src) == {h \in G.nodes : IsPrefix(src, G.name[h].ns)}

\* the namespaces strictly below src
Below(G, src) == {x \in G.namespaces : x # src /\ IsPrefix(src, x)}

\* move the nodes of S, one after the other, from src to dst, the scene
\* resolving each clash with the nodes already there
RECURSIVE MoveNodes(_, _, _, _)
MoveNodes(G, S, src, dst) ==
    IF S = {} THEN G
    ELSE LET h == CHOOSE x \in S : \A y \in S : x <= y
             nm == [G.name[h] EXCEPT !.ns = Rebase(@, src, dst)]
             G1 == [G EXCEPT !.name[h] = UniqueName(G, G.parent[h], nm, {h})]
         IN MoveNodes(G1, S \ {h}, src, dst)

\* a node of src would take the name of a sibling that is not moved
MoveClashes(G, src, dst) ==
    \E h \in Inside(G, src) :
        Clash(G, G.parent[h], [G.name[h] EXCEPT !.ns = Rebase(@, src, dst)],
              Inside(G, src))

\* cmds.namespace(mv=(src, dst)): the content of src moves into dst, src
\* stays (empty); a name clash, or a dst inside src, fails.  Moving a
\* namespace onto itself changes nothing or fails (same: the scene's choice).
CmdsNamespaceMove(G, src, dst, same) ==
    IF src = dst THEN (IF same THEN Ok(G, None) ELSE Raise(G, "maya"))
    ELSE IF IsPrefix(src, dst) \/ MoveClashes(G, src, dst) THEN Raise(G, "maya")
    ELSE LET G1 == MoveNodes(G, Inside(G, src), src, dst)
         IN Ok([G1 EXCEPT !.namespaces =
                    (@ \ Below(G, src))
                    \cup {Rebase(x, src, dst) : x \in Below(G, src)}], None)

\* cmds.namespace(ren=(old, new)[, p=par]): old and what it holds become dst
\* (new under par, or under old's own parent); fails when dst exists or
\* lies inside old
CmdsNamespaceRename(G, old, dst) ==
    IF dst \in G.namespaces \/ IsPrefix(old, dst) THEN Raise(G, "maya")
    ELSE LET G1 == MoveNodes(G, Inside(G, old), old, dst)
             sub == Below(G, old) \cup {old}
         IN Ok([G1 EXCEPT !.namespaces =
                    (@ \ sub) \cup {Rebase(x, old, dst) : x \in sub}], None)

\* cmds.namespace(rm=ns, mnr=1): ns is removed, what it holds moves to the
\* root namespace, the scene renaming the nodes whose names clash there
CmdsNamespaceRemoveMerge(G, ns) ==
    LET G1 == MoveNodes(G, Inside(G, ns), ns, <<>>)
    IN [G1 EXCEPT !.namespaces =
            (@ \ (Below(G, ns) \cup {ns}))
            \cup {Rebase(x, ns, <<>>) : x \in Below(G, ns)}]

\* ------------------------------------------------------------ references
\* What a caller passes for a node: a name string, a uuid string, or the
\* scene's object for it (an om.MObject).
NameRef(v) == [kind |-> "name", v |-> v, h |-> NoNode]
UuidRef(h) == [kind |-> "uuid", v |-> EmptyStr, h |-> h]   \* the string Uuid(h)
ObjRef(h) == [kind |-> "obj", v |-> EmptyStr, h |-> h]

\* name_to_node(value): the object of the one live node the string names
\* (by name or by uuid), None when there is none
name_to_node(G, r) ==
    LET found == IF r.kind = "uuid" THEN {h \in G.nodes : Uuid(h) = Uuid(r.h)}
                 ELSE Matches(G, r.v)
    IN IF Cardinality(found) = 1 THEN CHOOSE h \in found : TRUE ELSE NoNode

\* ------------------------------------------------------------------ Node
\* A wrapper is [cls, str, dependnode]: its class, the string it is (the
\* uuid read at construction) and the cached scene object.

\* the None that Node.__new__ and Factory.get_system return for no instance
NoWrapper == [cls |-> None, str |-> Uuid(NoNode), dependnode |-> NoNode]

\* Node.__new__(cls, value).  A string is resolved; an object is taken as it
\* is, with no check that its node still exists.  alive: whether the scene
\* still holds the data of a deleted node's object (its function set works)
\* or not (the function set fails).
NodeNew(G, cls, r, alive) ==
    LET value == IF r.kind \in {"name", "uuid"} THEN name_to_node(G, r) ELSE r.h
    IN IF value = NoNode THEN Ok(G, NoWrapper)
       ELSE IF value \notin G.nodes /\ ~alive THEN Raise(G, "maya")
       ELSE Ok(G, [cls |-> cls, str |-> Uuid(value), dependnode |-> value])

\* str.__eq__ alone: the comparison without the class
EqNoClass(a, b) == a.str = b.str

\* an equality that also asks the scene whether the node still exists
EqLive(a, b) == a.cls = b.cls /\ a.str = b.str /\ a.dependnode \in scene.nodes

\* Node.__eq__
Eq(a, b) == a.cls = b.cls /\ a.str = b.str

\* hash() of a str: a function of its content
HashStr(s) == <<"hash", s>>

\* a hash of the node's current name instead of the identity
HashByName(w) == HashStr(PartialPathName(scene, w.dependnode))

\* Node.__hash__
Hash(w) == HashStr(w.str)

\* om.MObjectHandle(self.dependnode).isAlive(): true of every node the scene
\* has made, deleted or not
IsAlive(G, w) == w.dependnode \in 1..G.created

\* om.MObjectHandle(self.dependnode).isValid()
IsValid(G, w) == w.dependnode \in G.nodes

\* the cached function set handed out without the validity check
FnUnchecked(G, w) == Ok(G, w.dependnode)

\* Node.fn: the cached function set, or the stale-reference failure
Fn(G, w) == IF IsValid(G, w) THEN Ok(G, w.dependnode) ELSE Raise(G, "stale")

\* Node.get_name (the name getter)
GetName(G, w) ==
    LET fn == Fn(G, w)
    IN IF fn.exc # "none" THEN fn ELSE Ok(G, PartialPathName(G, fn.ret))

\* Node.namespace (getter): the namespace as "a:b", "" for the root
GetNamespace(G, w) ==
    LET fn == Fn(G, w)
    IN IF fn.exc # "none" THEN fn ELSE Ok(G, G.name[fn.ret].ns)

\* Node.nodename
Nodename(G, w) ==
    LET fn == Fn(G, w)
    IN IF fn.exc # "none" THEN fn
       ELSE Ok(G, [PartialPathName(G, fn.ret) EXCEPT !.pfx = NoPfx])

\* Node.__repr__
Repr(G, w) ==
    LET nm == GetName(G, w)
    IN IF nm.exc # "none" THEN nm ELSE Ok(G, <<ClassName(w.cls), nm.ret>>)

\* a setter that removes the namespace without merging it with the root:
\* the scene refuses to remove a namespace that holds anything
SetNamespaceNoMerge(G, w, value, same) ==
    LET cur == GetNamespace(G, w)
        ns == cur.ret
    IN IF cur.exc # "none" THEN cur
       ELSE IF ns = <<>> THEN Ok(G, None)
       ELSE IF value = <<>>
            THEN (IF NamespaceContents(G, ns) # {} THEN Raise(G, "maya")
                  ELSE Ok(CmdsNamespaceRemove(G, ns), None))
       ELSE IF CmdsNamespaceExists(G, value)
            THEN CmdsNamespaceMove(G, ns, value, same)
       ELSE IF Len(value) > 1
            THEN LET par == SubSeq(value, 1, Len(value) - 1)
                     G1 == IF CmdsNamespaceExists(G, par) THEN G
                           ELSE CmdsNamespaceAdd(G, par)
                 IN CmdsNamespaceRename(G1, G1.name[w.dependnode].ns, value)
       ELSE CmdsNamespaceRename(G, ns, SubSeq(ns, 1, Len(ns) - 1) \o value)

\* Node.namespace (setter); value is a namespace, <<>> for ''
SetNamespace(G, w, value, same) ==
    LET cur == GetNamespace(G, w)
        ns == cur.ret
    IN IF cur.exc # "none" THEN cur
       ELSE IF ns = <<>> THEN Ok(G, None)
       ELSE IF value = <<>> THEN Ok(CmdsNamespaceRemoveMerge(G, ns), None)
       ELSE IF CmdsNamespaceExists(G, value)
            THEN CmdsNamespaceMove(G, ns, value, same)
       ELSE IF Len(value) > 1
            THEN LET par == SubSeq(value, 1, Len(value) - 1)
                     G1 == IF CmdsNamespaceExists(G, par) THEN G
                           ELSE CmdsNamespaceAdd(G, par)
                 IN CmdsNamespaceRename(G1, G1.name[w.dependnode].ns, value)
       ELSE CmdsNamespaceRename(G, ns, SubSeq(ns, 1, Len(ns) - 1) \o value)

\* a rename that does not append the default name
RenameNoDefault(G, w, value, same) ==
    LET nm == GetName(G, w)
        moved == IF HasSep(G, nm.ret)
                 THEN SetNamespace(G, w, IF value.ns # <<>> THEN RSplitHead(value)
                                         ELSE <<>>, same)
                 ELSE Ok(G, None)
    IN IF nm.exc # "none" THEN nm
       ELSE IF moved.exc # "none" THEN moved
       ELSE IF value = EmptyStr THEN Raise(moved.g, "index")
       ELSE Ok(CmdsRename(moved.g, w.dependnode, value), None)

\* Node.rename (the name setter)
Rename(G, w, value, same) ==
    LET nm == GetName(G, w)
        moved == IF HasSep(G, nm.ret)
                 THEN SetNamespace(G, w, IF value.ns # <<>> THEN RSplitHead(value)
                                         ELSE <<>>, same)
                 ELSE Ok(G, None)
        v == IF EndsWithSep(value) THEN AppendDefault(value) ELSE value
    IN IF nm.exc # "none" THEN nm
       ELSE IF moved.exc # "none" THEN moved
       ELSE IF value = EmptyStr THEN Raise(moved.g, "index")
       ELSE Ok(CmdsRename(moved.g, w.dependnode, v), None)

\* a delete that leaves the namespace behind
DeleteKeepNamespace(G, w) ==
    LET cur == GetNamespace(G, w)
    IN IF cur.exc # "none" THEN cur ELSE Ok(CmdsDelete(G, w.dependnode), None)

\* Node.delete
Delete(G, w) ==
    LET cur == GetNamespace(G, w)
        ns == cur.ret
        G1 == CmdsDelete(G, w.dependnode)
    IN IF cur.exc # "none" THEN cur
       ELSE IF ns # <<>> /\ NamespaceContents(G1, ns) = {}
            THEN Ok(CmdsNamespaceRemove(G1, ns), None)
       ELSE Ok(G1, None)

\* KeepSel(): the selection is read before the call and set back after it,
\* on every exit path
KeepSel(G, out) == [out EXCEPT !.g.selection = G.selection]

\* the body of Node.export; written: whether cmds.file succeeds
ExportBody(G, w, written) ==
    LET nm == GetName(G, w)
        G1 == CmdsSelect(G, w.dependnode)
    IN IF nm.exc # "none" THEN nm
       ELSE IF ~written THEN Raise(G1, "maya")
       ELSE Ok(G1, None)

\* export without the decorator
ExportUnscoped(G, w, written) == ExportBody(G, w, written)

\* Node.export, under @KeepSel()
Export(G, w, written) == KeepSel(G, ExportBody(G, w, written))

\* Node.serialize
Serialize(G, w) ==
    LET r == Repr(G, w)
    IN IF r.exc # "none" THEN r ELSE Ok(G, [type |-> ClassName(w.cls)])

\* add_system_attr without the attributeQuery guard
AddSystemAttrUnguarded(G, h, value) ==
    LET added == CmdsAddAttr(G, h)
    IN IF added.exc # "none" THEN added ELSE CmdsSetAttr(added.g, h, value)

\* add_system_attr(obj, value), obj naming the node h
add_system_attr(G, h, value) ==
    LET added == IF ~CmdsAttributeExists(G, h) THEN CmdsAddAttr(G, h)
                 ELSE Ok(G, None)
    IN IF added.exc # "none" THEN added ELSE CmdsSetAttr(added.g, h, value)

\* Node.create(cls, name, parent): name is a string, '' standing for None as
\* well (name or cls._NODETYPE); parent is World for None, or the handle whose
\* uuid is passed (cmds.ls(parent)[0] is an IndexError when no node has it)
NodeCreate(G, cls, name, parent) ==
    LET nm0 == IF name = EmptyStr THEN Str(<<>>, NODETYPE, 0)
               ELSE name
        nm == IF EndsWithSep(nm0) THEN AppendDefault(nm0) ELSE nm0
        G1 == CmdsCreateNode(G, nm, parent)
        root == PartialPathName(G1, G1.created)
    IN IF parent # World /\ parent \notin G.nodes THEN Raise(G, "index")
       ELSE NodeNew(G1, cls, NameRef(root), TRUE)

\* System.create_attributes
CreateAttributes(G, w) ==
    LET nm == GetName(G, w)
    IN IF nm.exc # "none" THEN nm
       ELSE add_system_attr(G, w.dependnode, ClassName(w.cls))

\* System.create(cls, name, parent)
SystemCreate(G, cls, name, parent) ==
    LET self == NodeCreate(G, cls, name, parent)
        tagged == CreateAttributes(self.g, self.ret)
    IN IF self.exc # "none" THEN self
       ELSE IF tagged.exc # "none" THEN tagged
       ELSE Ok(tagged.g, self.ret)

\* cls.create, by the class's method resolution
Create(G, cls, name, parent) ==
    IF IsSystemClass(cls) THEN SystemCreate(G, cls, name, parent)
    ELSE NodeCreate(G, cls, name, parent)

\* Node.deserialize(cls, name, parent, *args, **kwargs): extra is the set of
\* keys of the extra data ({"type"} for the mapping serialize returns).
\* create takes no argument besides name and parent, so any extra one is a
\* TypeError
Deserialize(G, cls, name, parent, extra) ==
    IF extra # {} THEN Raise(G, "type") ELSE Create(G, cls, name, parent)

\* a getter that answers with the instance's class name instead of asking
\* the scene
GetTypeFromClass(G, w) ==
    LET nm == GetName(G, w)
    IN IF nm.exc # "none" THEN nm ELSE Ok(G, ClassName(w.cls))

\* System.type (getter)
GetType(G, w) ==
    LET nm == GetName(G, w)
    IN IF nm.exc # "none" THEN nm ELSE CmdsGetAttr(G, w.dependnode)

\* a setter that writes the class name instead of the value
SetTypeOwnClass(G, w, value) ==
    LET nm == GetName(G, w)
    IN IF nm.exc # "none" THEN nm
       ELSE CmdsSetAttr(G, w.dependnode, ClassName(w.cls))

\* System.type (setter)
SetType(G, w, value) ==
    LET nm == GetName(G, w)
    IN IF nm.exc # "none" THEN nm ELSE CmdsSetAttr(G, w.dependnode, value)

\* --------------------------------------------------------------- Factory
\* The registry is the dict the Factory is: tag -> class, None where the tag
\* is no key.
RegKeys == {ClassName(c) : c \in Classes}
EmptyRegistry == [k \in RegKeys |-> None]

\* cls.__subclasses__(): the loaded direct subclasses, in definition order
Subclasses(L, cls) ==
    LET Direct(c) == Base(c) = cls IN SelectSeq(L, Direct)

RECURSIVE RegisterEach(_, _, _)

\* a register that keeps the entry a name already has
RegisterKeepFirst(reg, L, cls) ==
    RegisterEach(IF reg[ClassName(cls)] = None
                 THEN [reg EXCEPT ![ClassName(cls)] = cls] ELSE reg,
                 L, Subclasses(L, cls))

\* register without the recursion into the subclasses
RegisterOnly(reg, L, cls) == [reg EXCEPT ![ClassName(cls)] = cls]

\* Factory.register(cls), for the classes L loaded when it runs
Register(reg, L, cls) ==
    RegisterEach([reg EXCEPT ![ClassName(cls)] = cls], L, Subclasses(L, cls))

\* [self.register(x) for x in cls.__subclasses__()]
RegisterEach(reg, L, todo) ==
    IF todo = <<>> THEN reg
    ELSE RegisterEach(Register(reg, L, Head(todo)), L, Tail(todo))

\* Factory.__init__(cls)
FactoryInit(L, cls) ==
    IF cls = None THEN EmptyRegistry ELSE Register(EmptyRegistry, L, cls)

\* a lookup that gives the default whatever the dict holds
RegistryGetDefault(reg, tag) == "System"

\* dict.get(tag, System)
RegistryGet(reg, tag) ==
    IF tag \in RegKeys /\ reg[tag] # None THEN reg[tag] ELSE "System"

\* Factory.get_system_class(obj)
GetSystemClass(G, reg, r, alive) ==
    LET obj == IF r.kind \in {"name", "uuid"} THEN name_to_node(G, r) ELSE r.h
    IN IF obj = NoNode THEN Ok(G, None)
       ELSE IF obj \notin G.nodes /\ ~alive THEN Raise(G, "maya")
       ELSE IF G.attr[obj] # NoAttr THEN Ok(G, RegistryGet(reg, G.attr[obj]))
       ELSE Ok(G, None)

\* get_system instantiating System instead of the class found
GetSystemAsBase(G, reg, r, alive) ==
    LET cls == GetSystemClass(G, reg, r, alive)
    IN IF cls.exc # "none" THEN cls
       ELSE IF cls.ret # None THEN NodeNew(G, "System", r, alive)
       ELSE Ok(G, NoWrapper)

\* Factory.get_system(obj)
GetSystem(G, reg, r, alive) ==
    LET cls == GetSystemClass(G, reg, r, alive)
    IN IF cls.exc # "none" THEN cls
       ELSE IF cls.ret # None THEN NodeNew(G, cls.ret, r, alive)
       ELSE Ok(G, NoWrapper)

\* ---------------------------------------------------------------- inputs
RefNames == {Str(<<>>, "duck", 0), Str(<<"ns">>, "duck", 0)}

\* the references a caller can hold: any string, and the object of any node
\* the scene has ever created
Refs(G) ==
    {NameRef(v) : v \in RefNames} \cup {UuidRef(h) : h \in Handles}
    \cup {ObjRef(h) : h \in 1..G.created}

\* ----------------------------------------------------------------- state
\* last: the call made last: op, the instance w it was made through, its
\* arguments (s: a class or tag, r: a reference or a name, flag, ns, other:
\* an instance), the exception exc it raised and, when it returned, its
\* result (inst: an instance, str: a class, tag or class name, name: a name,
\* rns: a namespace, bool); tick flips with every call
NoRef == NameRef(EmptyStr)
NoArg == [s |-> None, r |-> NoRef, flag |-> FALSE, ns |-> <<>>, other |-> NoWrapper]
NoCall ==
    [op |-> "none", w |-> NoWrapper, s |-> None, r |-> NoRef, flag |-> FALSE,
     ns |-> <<>>, other |-> NoWrapper, exc |-> "none", inst |-> NoWrapper,
     str |-> None, name |-> EmptyStr, rns |-> <<>>, bool |-> FALSE, tick |-> FALSE]

Call(op, w, arg, out, kind) ==
    LET c == [NoCall EXCEPT !.op = op, !.w = w, !.s = arg.s, !.r = arg.r,
                            !.flag = arg.flag, !.ns = arg.ns, !.other = arg.other,
                            !.exc = out.exc,
                            !.tick = ~last.tick]
    IN IF out.exc # "none" THEN c
       ELSE CASE kind = "inst" -> [c EXCEPT !.inst = out.ret]
              [] kind = "str" -> [c EXCEPT !.str = out.ret]
              [] kind = "name" -> [c EXCEPT !.name = out.ret]
              [] kind = "ns" -> [c EXCEPT !.rns = out.ret]
              [] kind = "repr" -> [c EXCEPT !.str = out.ret[1], !.name = out.ret[2]]
              [] kind = "dict" -> [c EXCEPT !.str = out.ret.type]
              [] kind = "bool" -> [c EXCEPT !.bool = out.ret]
              [] OTHER -> c

\* the module is imported: Node and System are defined, and
\* factory = Factory(System) has run on an empty scene
Init ==
    /\ scene = InitScene
    /\ wrappers = {}
    /\ loaded = <<"Node", "System">>
    /\ registry = FactoryInit(<<"Node", "System">>, "System")
    /\ keyed = {}
    /\ made = [h \in Handles |-> None]
    /\ last = NoCall

Loaded == {loaded[i] : i \in 1..Len(loaded)}

\* the caller keeps the instance a call returned, when it returned one
Keep(w) == IF w = NoWrapper THEN wrappers ELSE wrappers \cup {w}
Room == Cardinality(wrappers) < MaxWrappers

\* a client module defines (or, for AssetR, redefines) a System subclass
DefineClass(c) ==
    /\ c \in ClientClasses \ Loaded
    /\ Base(c) \in Loaded
    /\ c = "AssetR" => "Asset" \in Loaded
    /\ loaded' = Append(loaded, c)
    /\ UNCHANGED <<scene, wrappers, registry, keyed, made, last>>

DoRegister(cls) ==
    /\ cls \in Loaded
    /\ registry' = Register(registry, loaded, cls)
    /\ last' = Call("register", NoWrapper, [NoArg EXCEPT !.s = cls], Ok(scene, None), "none")
    /\ UNCHANGED <<scene, wrappers, loaded, keyed, made>>

\* the factory under study is replaced by a new Factory(cls) / Factory()
NewFactory(cls) ==
    /\ cls \in Loaded \cup {None}
    /\ registry' = FactoryInit(loaded, cls)
    /\ last' = Call("factory", NoWrapper, [NoArg EXCEPT !.s = cls], Ok(scene, None), "none")
    /\ UNCHANGED <<scene, wrappers, loaded, keyed, made>>

DoCreate(cls, name, parent) ==
    /\ cls \in Loaded /\ Room /\ scene.created < MaxNodes
    /\ LET out == Create(scene, cls, name, parent)
       IN /\ scene' = out.g
          /\ wrappers' = IF out.exc = "none" THEN Keep(out.ret) ELSE wrappers
          /\ last' = Call("create", NoWrapper,
                          [NoArg EXCEPT !.s = cls, !.r = NameRef(name)], out, "inst")
          /\ made' = IF out.exc = "none" THEN [made EXCEPT ![out.ret.dependnode] = cls]
                     ELSE made
    /\ UNCHANGED <<loaded, registry, keyed>>

DoDeserialize(cls, name, parent, extra) ==
    /\ cls \in Loaded /\ Room /\ scene.created < MaxNodes
    /\ LET out == Deserialize(scene, cls, name, parent, extra)
       IN /\ scene' = out.g
          /\ wrappers' = IF out.exc = "none" THEN Keep(out.ret) ELSE wrappers
          /\ last' = Call("deserialize", NoWrapper,
                          [NoArg EXCEPT !.s = cls, !.r = NameRef(name),
                                        !.flag = extra # {}], out, "inst")
          /\ made' = IF out.exc = "none" THEN [made EXCEPT ![out.ret.dependnode] = cls]
                     ELSE made
    /\ UNCHANGED <<loaded, registry, keyed>>

\* cls(value)
DoConstruct(cls, r, alive) ==
    /\ cls \in Loaded /\ Room /\ r \in Refs(scene)
    /\ LET out == NodeNew(scene, cls, r, alive)
       IN /\ wrappers' = IF out.exc = "none" THEN Keep(out.ret) ELSE wrappers
          /\ last' = Call("new", NoWrapper,
                          [NoArg EXCEPT !.s = cls, !.r = r, !.flag = alive], out, "inst")
    /\ UNCHANGED <<scene, loaded, registry, keyed, made>>

DoGetSystemClass(r, alive) ==
    /\ r \in Refs(scene)
    /\ last' = Call("get_system_class", NoWrapper,
                    [NoArg EXCEPT !.r = r, !.flag = alive],
                    GetSystemClass(scene, registry, r, alive), "str")
    /\ UNCHANGED <<scene, wrappers, loaded, registry, keyed, made>>

\* keep: whether the caller holds on to the instance returned
DoGetSystem(r, alive, keep) ==
    /\ r \in Refs(scene) /\ (keep => Room)
    /\ LET out == GetSystem(scene, registry, r, alive)
       IN /\ wrappers' = IF out.exc = "none" /\ keep THEN Keep(out.ret) ELSE wrappers
          /\ last' = Call("get_system", NoWrapper,
                          [NoArg EXCEPT !.r = r, !.flag = alive], out, "inst")
    /\ UNCHANGED <<scene, loaded, registry, keyed, made>>

\* the caller lets go of an instance
Drop(w) ==
    /\ w \in wrappers
    /\ wrappers' = wrappers \ {w}
    /\ UNCHANGED <<scene, loaded, registry, keyed, made, last>>

\* someone selects a node in the scene (add: on top of the selection)
UserSelect(h, add) ==
    /\ h \in scene.nodes
    /\ scene' = [scene EXCEPT !.selection =
                    IF add THEN Append(RemoveFromSeq(@, {h}), h) ELSE <<h>>]
    /\ UNCHANGED <<wrappers, loaded, registry, keyed, made, last>>

\* a read through an instance: op names the property or method
Read(op, w, out, kind) ==
    /\ w \in wrappers
    /\ last' = Call(op, w, NoArg, out, kind)
    /\ UNCHANGED <<scene, wrappers, loaded, registry, keyed, made>>

\* a call through an instance that may change the scene
Write(op, w, arg, out) ==
    /\ w \in wrappers
    /\ scene' = out.g
    /\ last' = Call(op, w, arg, out, "none")
    /\ UNCHANGED <<wrappers, loaded, registry, keyed, made>>

DoGetName(w) == Read("name", w, GetName(scene, w), "name")
DoGetNamespace(w) == Read("namespace", w, GetNamespace(scene, w), "ns")
DoNodename(w) == Read("nodename", w, Nodename(scene, w), "name")
DoRepr(w) == Read("repr", w, Repr(scene, w), "repr")
DoSerialize(w) == Read("serialize", w, Serialize(scene, w), "dict")
DoGetType(w) == IsSystemClass(w.cls) /\ Read("type", w, GetType(scene, w), "str")

DoRename(w, value, same) ==
    Write("rename", w, [NoArg EXCEPT !.r = NameRef(value), !.flag = same],
          Rename(scene, w, value, same))
DoSetNamespace(w, value, same) ==
    Write("set_namespace", w, [NoArg EXCEPT !.ns = value, !.flag = same],
          SetNamespace(scene, w, value, same))
DoDelete(w) == Write("delete", w, NoArg, Delete(scene, w))
DoExport(w, written) ==
    Write("export", w, [NoArg EXCEPT !.flag = written], Export(scene, w, written))
DoSetType(w, value) ==
    /\ IsSystemClass(w.cls)
    /\ Write("set_type", w, [NoArg EXCEPT !.s = value], SetType(scene, w, value))
DoCreateAttributes(w) ==
    /\ IsSystemClass(w.cls)
    /\ Write("create_attributes", w, NoArg, CreateAttributes(scene, w))

\* d[w] = ...: dict insertion finds the slot by hash, then by ==
Lookup(d, w) ==
    \E e \in d : e.h = Hash(w) /\ Eq([cls |-> e.cls, str |-> e.str, dependnode |-> w.dependnode], w)

\* d[w] = ... for a key the dict does not hold
KeyInsert(w) ==
    /\ w \in wrappers /\ Cardinality(keyed) < MaxWrappers
    /\ ~Lookup(keyed, w)
    /\ keyed' = keyed \cup {[cls |-> w.cls, str |-> w.str, h |-> Hash(w)]}
    /\ last' = Call("key_insert", w, NoArg, Ok(scene, None), "none")
    /\ UNCHANGED <<scene, wrappers, loaded, registry, made>>

\* a == b
DoEq(a, b) ==
    /\ a \in wrappers /\ b \in wrappers
    /\ last' = Call("eq", a, [NoArg EXCEPT !.other = b], Ok(scene, Eq(a, b)), "bool")
    /\ UNCHANGED <<scene, wrappers, loaded, registry, keyed, made>>

\* the accesses through an instance that need the live node
Access(w) ==
    \/ DoGetName(w)
    \/ DoGetNamespace(w)
    \/ DoNodename(w)
    \/ DoRepr(w)
    \/ DoGetType(w)
    \/ DoCreateAttributes(w)
    \/ DoDelete(w)
    \/ DoExport(w, TRUE)

\* a step that makes a call
Called == last'.tick # last.tick

\* Lifecycle: nodes of the classes of node.py are created, wrapped, renamed,
\* exported and deleted, and read through their wrappers.
LifeClasses == {"Node", "System"}
LifeNames == {Str(<<"ns">>, "duck", 0)}
LifeValues == {Str(<<"ns">>, "", 0)}
LifeNamespaces == {<<>>}

NextLife ==
    \/ \E c \in LifeClasses, v \in LifeNames, p \in {World} \cup Handles :
          DoCreate(c, v, p)
    \/ \E c \in LifeClasses, h \in Handles : DoConstruct(c, UuidRef(h), TRUE)
    \/ \E w \in wrappers : Drop(w)
    \/ \E w \in wrappers : Access(w)
    \/ \E w \in wrappers, v \in LifeValues : DoRename(w, v, TRUE)
    \/ \E w \in wrappers, v \in LifeNamespaces : DoSetNamespace(w, v, TRUE)
    \/ \E w \in wrappers : DoSetType(w, "System")

SpecLife == Init /\ [][NextLife]_vars

\* Export: System nodes are created, selected, exported and deleted.
NextExport ==
    \/ \E p \in {World} \cup Handles : DoCreate("System", Str(<<>>, "duck", 0), p)
    \/ \E h \in Handles, a \in BOOLEAN : UserSelect(h, a)
    \/ \E w \in wrappers : Drop(w)
    \/ \E w \in wrappers : DoDelete(w)
    \/ \E w \in wrappers, x \in BOOLEAN : DoExport(w, x)

SpecExport == Init /\ [][NextExport]_vars

\* Lookup: nodes are created by Node, System and a client subclass that is
\* registered or not, retagged, deleted, and looked up through the factory.
FactoryClasses == {"Node", "System", "Asset"}
FactoryTags == {"Asset", "Ghost"}
Duck == Str(<<>>, "duck", 0)

\* a name, the uuid of any node, or the object of a node: alive matters for
\* an object only
FactoryRefs ==
    {[r |-> NameRef(Duck), alive |-> TRUE]}
    \cup {[r |-> UuidRef(h), alive |-> TRUE] : h \in Handles}
    \cup {[r |-> ObjRef(h), alive |-> a] : h \in 1..scene.created, a \in BOOLEAN}

NextLookup ==
    \/ DefineClass("Asset")
    \/ DoRegister("System")
    \/ \E c \in FactoryClasses : DoCreate(c, Duck, World)
    \/ \E r \in FactoryRefs : DoGetSystemClass(r.r, r.alive)
    \/ \E r \in FactoryRefs : DoGetSystem(r.r, r.alive, FALSE)
    \/ \E w \in wrappers : Drop(w)
    \/ \E w \in wrappers : DoDelete(w)
    \/ \E w \in wrappers, t \in FactoryTags : DoSetType(w, t)

SpecLookup == Init /\ [][NextLookup]_vars

\* Round trip: nodes are created or rebuilt from serialized data by Node,
\* System and a client subclass, serialized, retagged, deleted, and looked up
\* by identity through the factory.
NextRound ==
    \/ DefineClass("Asset")
    \/ DoRegister("System")
    \/ \E c \in FactoryClasses : DoCreate(c, Duck, World)
    \/ \E c \in FactoryClasses, x \in {{}, {"type"}} : DoDeserialize(c, Duck, World, x)
    \/ \E w \in wrappers : DoSerialize(w)
    \/ \E h \in Handles : DoGetSystem(UuidRef(h), TRUE, FALSE)
    \/ \E w \in wrappers : Drop(w)
    \/ \E w \in wrappers : DoDelete(w)
    \/ \E w \in wrappers : DoSetType(w, "Ghost")

SpecRound == Init /\ [][NextRound]_vars

\* Tagging: System nodes and plain nodes are created, wrapped as Systems,
\* tagged and retagged.
NextTag ==
    \/ DefineClass("Asset")
    \/ DoRegister("System")
    \/ \E c \in FactoryClasses : DoCreate(c, Duck, World)
    \/ \E h \in Handles : DoConstruct("System", UuidRef(h), TRUE)
    \/ \E w \in wrappers : Drop(w)
    \/ \E w \in wrappers : DoDelete(w)
    \/ \E w \in wrappers, t \in FactoryTags : DoSetType(w, t)
    \/ \E w \in wrappers : DoCreateAttributes(w)

SpecTag == Init /\ [][NextTag]_vars

\* Registry: client classes are defined and redefined, registered in
\* factories, and nodes tagged with their names are resolved.
NextRegistry ==
    \/ \E c \in ClientClasses : DefineClass(c)
    \/ \E c \in Classes : DoRegister(c)
    \/ \E c \in Classes \cup {None} : NewFactory(c)
    \/ \E c \in Classes : DoCreate(c, Duck, World)
    \/ \E h \in Handles : DoGetSystemClass(UuidRef(h), TRUE)
    \/ \E w \in wrappers : Drop(w)

SpecRegistry == Init /\ [][NextRegistry]_vars

\* Equality: instances of several classes are made for the same nodes and
\* compared.
NextEq ==
    \/ DefineClass("Asset")
    \/ \E c \in FactoryClasses : DoCreate(c, Duck, World)
    \/ \E c \in FactoryClasses, h \in Handles : DoConstruct(c, UuidRef(h), TRUE)
    \/ \E w \in wrappers : Drop(w)
    \/ \E w \in wrappers : DoDelete(w)
    \/ \E a \in wrappers, b \in wrappers : DoEq(a, b)

SpecEq == Init /\ [][NextEq]_vars

\* Names: nodes are created in and out of namespaces, used as dict keys,
\* renamed and moved between namespaces.
KeyNames == {Duck, Str(<<"ns">>, "duck", 0)}
KeyValues == {Duck, Str(<<"ns">>, "duck", 0), Str(<<"zoo">>, "duck", 0),
              Str(<<"ns">>, "", 0)}
KeyNamespaces == {<<>>, <<"zoo">>}

NextNames ==
    \/ \E v \in KeyNames : DoCreate("Node", v, World)
    \/ \E w \in wrappers : KeyInsert(w)
    \/ \E w \in wrappers, v \in KeyValues : DoRename(w, v, TRUE)
    \/ \E w \in wrappers, v \in KeyNamespaces : DoSetNamespace(w, v, TRUE)

SpecNames == Init /\ [][NextNames]_vars

\* Namespaces: nodes are created in and out of namespaces and moved between
\* namespaces, existing or not, nested or not.
NsNames == {Duck, Str(<<"ns">>, "duck", 0)}
NsTargets == {<<>>, <<"ns">>, <<"zoo">>, <<"zoo", "ns">>}

NextNamespace ==
    \/ \E v \in NsNames : DoCreate("Node", v, World)
    \/ \E w \in wrappers : DoGetNamespace(w)
    \/ \E w \in wrappers, v \in NsTargets, x \in BOOLEAN : DoSetNamespace(w, v, x)

SpecNamespace == Init /\ [][NextNamespace]_vars

\* Deletion: nodes are created in and out of namespaces, nested or not,
\* under the world or under each other, and deleted.
DeleteNames ==
    {Duck, Str(<<"ns">>, "duck", 0), Str(<<"zoo">>, "duck", 0),
     Str(<<"zoo", "ns">>, "duck", 0)}

NextDelete ==
    \/ \E v \in DeleteNames, p \in {World} \cup Handles : DoCreate("Node", v, p)
    \/ \E w \in wrappers : DoGetNamespace(w)
    \/ \E w \in wrappers : DoDelete(w)

SpecDelete == Init /\ [][NextDelete]_vars

\* Renaming: nodes are created in and out of a namespace and renamed, within
\* their namespace, into another one, out of any, or to a bare namespace.
RenameNames == {Duck, Str(<<"ns">>, "duck", 0)}
RenameValues ==
    {Duck, Str(<<>>, "goose", 0), Str(<<"ns">>, "duck", 0),
     Str(<<"ns">>, "goose", 0), Str(<<"zoo">>, "duck", 0), Str(<<"ns">>, "", 0),
     EmptyStr}

NextRename ==
    \/ \E v \in RenameNames : DoCreate("Node", v, World)
    \/ \E w \in wrappers : DoGetName(w)
    \/ \E w \in wrappers : DoGetNamespace(w)
    \/ \E w \in wrappers, v \in RenameValues, x \in BOOLEAN : DoRename(w, v, x)

SpecRename == Init /\ [][NextRename]_vars

\* Stale instances: nodes are created, wrapped by several classes, used as
\* dict keys, compared, renamed and deleted while their instances are kept.
StaleName == Str(<<"ns">>, "duck", 0)

NextStale ==
    \/ \E c \in LifeClasses : DoCreate(c, Duck, World)
    \/ \E c \in LifeClasses, h \in Handles : DoConstruct(c, UuidRef(h), TRUE)
    \/ \E w \in wrappers : KeyInsert(w)
    \/ \E a \in wrappers, b \in wrappers : DoEq(a, b)
    \/ \E w \in wrappers : DoRename(w, StaleName, TRUE)
    \/ \E w \in wrappers : DoDelete(w)
    \/ \E w \in wrappers : Drop(w)

SpecStale == Init /\ [][NextStale]_vars

\* Recreation: nodes are created under one name, deleted and created again
\* under that name, while the instances of the deleted nodes are kept, used
\* and compared, and the name is looked up through the factory.
NextRecreate ==
    \/ \E c \in LifeClasses : DoCreate(c, Duck, World)
    \/ \E w \in wrappers : Access(w)
    \/ \E w \in wrappers : DoRename(w, Duck, TRUE)
    \/ \E w \in wrappers : DoSetNamespace(w, <<>>, TRUE)
    \/ \E w \in wrappers : DoSetType(w, "System")
    \/ \E k \in BOOLEAN : DoGetSystem(NameRef(Duck), TRUE, k)
    \/ \E a \in wrappers, b \in wrappers : DoEq(a, b)
    \/ \E w \in wrappers : Drop(w)

SpecRecreate == Init /\ [][NextRecreate]_vars

\* Shared node: a node is changed through the instance create returned, and
\* read through the other instances made of it, directly and by the factory;
\* once it is deleted, everything is tried through those.
SharedValues == {Str(<<>>, "goose", 0), Str(<<"zoo">>, "duck", 0), Str(<<"ns">>, "", 0)}
SharedNamespaces == {<<>>, <<"zoo">>}

\* the instance is of the class that created its node
Creator(w) == w.dependnode \in Handles /\ made[w.dependnode] = w.cls

NextShared ==
    \/ DefineClass("Asset")
    \/ \E v \in RenameNames : DoCreate("Asset", v, World)
    \/ \E h \in Handles : DoConstruct("System", UuidRef(h), TRUE)
    \/ \E h \in Handles : DoGetSystem(UuidRef(h), TRUE, TRUE)
    \/ \E w \in wrappers, v \in SharedValues : Creator(w) /\ DoRename(w, v, TRUE)
    \/ \E w \in wrappers, v \in SharedNamespaces :
          Creator(w) /\ DoSetNamespace(w, v, TRUE)
    \/ \E w \in wrappers : Creator(w) /\ DoSetType(w, "Ghost")
    \/ \E w \in wrappers : Creator(w) /\ DoDelete(w)
    \/ \E w \in wrappers : ~Creator(w) /\ DoGetName(w)
    \/ \E w \in wrappers : ~Creator(w) /\ DoGetNamespace(w)
    \/ \E w \in wrappers : ~Creator(w) /\ DoGetType(w)
    \/ \E w \in wrappers :
          /\ ~Creator(w) /\ w.dependnode \notin scene.nodes
          /\ \/ Access(w)
             \/ DoRename(w, Duck, TRUE)
             \/ DoSetNamespace(w, <<>>, TRUE)
             \/ DoSetType(w, "Ghost")
    \/ \E w \in wrappers : Drop(w)

SpecShared == Init /\ [][NextShared]_vars

\* ----------------------------------------------------------------- claims

\* the properties and methods of a wrapper that need the live node
LiveAccess ==
    {"name", "rename", "namespace", "set_namespace", "nodename", "type",
     "set_type", "create_attributes", "delete", "export", "repr"}

\* C1: an access through a wrapper that needs the live node raises the
\* stale-reference failure if and only if the node the wrapper is bound to
\* no longer exists when the access is made.
C1_StaleIffDeleted ==
    [][(Called /\ last'.op \in LiveAccess)
        => ((last'.exc = "stale") <=> (last'.w.dependnode \notin scene.nodes))]_vars

\* Scenario D: a System was deleted and .type on the stale wrapper raised
C1_Witness ==
    /\ last.op = "type" /\ last.exc = "stale"
    /\ last.w.cls = "System" /\ last.w.dependnode \notin scene.nodes
    /\ last.w \in wrappers

\* every instance that can be made of the nodes the scene has created
Instances ==
    {[cls |-> c, str |-> Uuid(h), dependnode |-> h] :
        c \in Loaded, h \in 1..scene.created}

\* C2: a == b holds exactly when a and b have the same concrete class and
\* the same identity; so == is reflexive, symmetric and transitive, and
\* instances of different classes on one identity are not equal.
C2_EqIffSameClassAndIdentity ==
    /\ last.op = "eq" =>
          (last.bool <=> (last.w.cls = last.other.cls /\ last.w.str = last.other.str))
    /\ \A a \in Instances : Eq(a, a)
    /\ \A a, b \in Instances : Eq(a, b) => Eq(b, a)
    /\ \A a, b, c \in Instances : (Eq(a, b) /\ Eq(b, c)) => Eq(a, c)
    /\ \A a, b \in Instances : (a.str = b.str /\ a.cls # b.cls) => ~Eq(a, b)

\* a System and an instance of a System subclass on the same node were
\* compared and found different
C2_Witness ==
    /\ last.op = "eq" /\ ~last.bool
    /\ last.w.str = last.other.str
    /\ last.w.cls = "System" /\ last.other.cls = "Asset"

\* C3: renaming a live instance's node, or setting its namespace, changes no
\* instance the caller holds (class and identity), no hash value and no
\* result of ==; the node the instance wraps is found under its new name with
\* the same identity, and an instance that is a key of a dict before the call
\* is still found in it after.
C3_RenameKeepsIdentity ==
    [][(Called /\ last'.op \in {"rename", "set_namespace"}
          /\ last'.w.dependnode \in scene.nodes)
        => /\ wrappers' = wrappers
           /\ \A m \in wrappers : Hash(m)' = Hash(m)
           /\ \A n, m \in wrappers : Eq(n, m)' = Eq(n, m)
           /\ \A m \in wrappers : Lookup(keyed, m) => Lookup(keyed, m)'
           /\ LET n == last'.w
                  nm == GetName(scene', n)
              IN /\ nm.exc = "none"
                 /\ NodeNew(scene', n.cls, NameRef(nm.ret), TRUE) = Ok(scene', n)]_vars

\* a dict key was renamed into another namespace
C3_Witness ==
    /\ last.op = "rename" /\ last.exc = "none"
    /\ last.r.v.ns = <<"zoo">>
    /\ scene.name[last.w.dependnode].ns = <<"zoo">>
    /\ Lookup(keyed, last.w)

\* the node a reference refers to, existing or not
Referred(G, r) == IF r.kind = "obj" THEN r.h ELSE name_to_node(G, r)

\* the class registered under a tag, System for a tag that is no key
Resolved(reg, tag) ==
    IF tag \in RegKeys THEN (IF reg[tag] # None THEN reg[tag] ELSE "System")
    ELSE "System"

\* C4: get_system_class(r) never raises and returns None when r refers to no
\* existing node, None when the node has no system_type attribute, the class
\* registered under the node's tag when there is one, System otherwise.
C4_GetSystemClassTotal ==
    last.op = "get_system_class" =>
        LET h == Referred(scene, last.r)
        IN /\ last.exc = "none"
           /\ last.str = IF h \notin scene.nodes THEN None
                         ELSE IF scene.attr[h] = NoAttr THEN None
                         ELSE Resolved(registry, scene.attr[h])

\* C5: get_system(r) returns None, and does not raise, when
\* get_system_class(r) is None, as it is for a name or an identity of a node
\* that was deleted or never existed; when get_system_class(r) is a class it
\* returns an instance of exactly that class with the identity of the node r
\* refers to.
C5_GetSystemFollowsClass ==
    last.op = "get_system" =>
        LET cls == GetSystemClass(scene, registry, last.r, last.flag)
            h == Referred(scene, last.r)
        IN /\ (cls.exc = "none" /\ cls.ret = None)
                => (last.exc = "none" /\ last.inst = NoWrapper)
           /\ (cls.exc = "none" /\ cls.ret # None)
                => /\ last.exc = "none"
                   /\ last.inst.cls = cls.ret
                   /\ last.inst.str = Uuid(h)
           /\ (last.r.kind # "obj" /\ h \notin scene.nodes)
                => (last.exc = "none" /\ last.inst = NoWrapper)

\* a node tagged with a registered client class was looked up by name and an
\* instance of that class returned
C5_Witness ==
    /\ last.op = "get_system" /\ last.exc = "none"
    /\ last.r.kind = "name"
    /\ last.inst.cls = "Asset"
    /\ scene.attr[last.inst.dependnode] = "Asset"

RECURSIVE IsSubclass(_, _)
IsSubclass(b, a) ==
    IF b = a THEN TRUE
    ELSE IF Base(b) = None THEN FALSE
    ELSE IsSubclass(Base(b), a)

\* the loaded classes that are A or below A
LoadedUnder(a) == {b \in Loaded : IsSubclass(b, a)}

\* C7 (as claimed): after register(A), or Factory(A), the registry maps the
\* name of every loaded B that is A or a subclass of A to B.
C7_RegisterMapsNameToClass ==
    [][(Called /\ last'.op \in {"register", "factory"} /\ last'.s \in Loaded)
        => \A b \in LoadedUnder(last'.s) : registry'[ClassName(b)] = b]_vars

\* C7 (amended): after register(A), or Factory(A), the registry maps the name
\* of every loaded B that is A or a subclass of A to a loaded class of that
\* name that is A or a subclass of A, to B itself when no other such class has
\* B's name; a node tagged with B's name resolves to that class.
C7_RegisterMapsNameToNamesake ==
    [][(Called /\ last'.op \in {"register", "factory"} /\ last'.s \in Loaded)
        => \A b \in LoadedUnder(last'.s) :
              LET same == {c \in LoadedUnder(last'.s) : ClassName(c) = ClassName(b)}
              IN /\ registry'[ClassName(b)] \in same
                 /\ same = {b} => registry'[ClassName(b)] = b
                 /\ \A h \in scene.nodes :
                       scene.attr[h] = ClassName(b) =>
                         GetSystemClass(scene', registry', UuidRef(h), TRUE)
                           = Ok(scene', registry'[ClassName(b)])]_vars

\* Prop, a subclass of a subclass of System, is registered by register(System)
\* and a node tagged Prop exists
C7_Witness ==
    /\ last.op = "register" /\ last.s = "System"
    /\ registry["Prop"] = "Prop" /\ registry["Asset"] = "Asset"
    /\ \E h \in scene.nodes : scene.attr[h] = "Prop"

\* C8: create of a System (sub)class C leaves the new node with the
\* system_type attribute set to C's name, and get_system by the node's name
\* gives an instance whose type reads C's name; create_attributes on a live
\* instance of class C never fails, leaves the attribute with C's name and
\* nothing else changed, and a second call changes nothing.
C8_TagIsClassName ==
    [][/\ (Called /\ last'.op = "create" /\ last'.exc = "none"
            /\ IsSystemClass(last'.s))
          => LET n == last'.inst
                 got == GetSystem(scene', registry',
                                  NameRef(PartialPathName(scene', n.dependnode)), TRUE)
             IN /\ n.cls = last'.s
                /\ scene'.attr[n.dependnode] = ClassName(last'.s)
                /\ got.exc = "none" /\ got.ret # NoWrapper
                /\ got.ret.str = n.str
                /\ GetType(scene', got.ret) = Ok(scene', ClassName(last'.s))
       /\ (Called /\ last'.op = "create_attributes"
            /\ last'.w.dependnode \in scene.nodes)
          => /\ last'.exc = "none"
             /\ scene' = [scene EXCEPT !.attr[last'.w.dependnode] =
                                            ClassName(last'.w.cls)]
             /\ CreateAttributes(scene', last'.w) = Ok(scene', None)]_vars

\* create_attributes was called on an instance of a client class whose node
\* create had tagged already
C8_Witness ==
    /\ last.op = "create_attributes" /\ last.exc = "none"
    /\ last.w.cls = "Asset" /\ made[last.w.dependnode] = "Asset"
    /\ scene.attr[last.w.dependnode] = "Asset"

\* what s.type = t does to a live System instance s: only the tag of s's
\* node changes, s.type reads t, get_system_class resolves by t
SetTypeEffect ==
    LET s == last'.w
        t == last'.s
        h == s.dependnode
    IN /\ last'.exc = "none"
       /\ scene' = [scene EXCEPT !.attr[h] = t]
       /\ wrappers' = wrappers /\ registry' = registry
       /\ \A n, m \in wrappers : Eq(n, m)' = Eq(n, m)
       /\ GetType(scene', s) = Ok(scene', t)
       /\ GetSystemClass(scene', registry', ObjRef(h), TRUE)
             = Ok(scene', Resolved(registry', t))

\* C9 (as claimed): s.type = t on every live System instance s.
C9_SetTypeOnAnyLiveSystem ==
    [][(Called /\ last'.op = "set_type" /\ last'.w.dependnode \in scene.nodes)
        => SetTypeEffect]_vars

\* C9 (amended): s.type = t on every live System instance s whose node has
\* the system_type attribute changes only the tag of the node: the class and
\* identity of s and its equality with other instances are unchanged, s.type
\* then reads t and get_system_class on the node resolves by t.
C9_SetTypeOnTaggedSystem ==
    [][(Called /\ last'.op = "set_type" /\ last'.w.dependnode \in scene.nodes
          /\ scene.attr[last'.w.dependnode] # NoAttr)
        => SetTypeEffect]_vars

\* an instance of a client class was given a tag no class is registered under
C9_Witness ==
    /\ last.op = "set_type" /\ last.exc = "none" /\ last.s = "Ghost"
    /\ last.w.cls = "Asset" /\ last.w \in wrappers
    /\ scene.attr[last.w.dependnode] = "Ghost"

\* C10: export leaves the selection as it was before the call, whether it
\* returns or fails.
C10_ExportKeepsSelection ==
    [][(Called /\ last'.op = "export") => scene'.selection = scene.selection]_vars

\* an export returned although the selection is not the exported node alone
C10_Witness ==
    /\ last.op = "export" /\ last.exc = "none"
    /\ scene.selection # <<>>
    /\ scene.selection # <<last.w.dependnode>>

\* C11: setting n.namespace = v, v not empty, on a live instance moves the
\* node into v: when the call returns, v exists and n.namespace reads v,
\* whether or not the node had a namespace.
C11_NamespaceSetReadsBack ==
    [][(Called /\ last'.op = "set_namespace" /\ last'.exc = "none"
          /\ last'.w.dependnode \in scene.nodes /\ last'.ns # <<>>)
        => /\ last'.ns \in scene'.namespaces
           /\ GetNamespace(scene', last'.w) = Ok(scene', last'.ns)]_vars

\* C12 (as claimed): n.namespace = '' on a live instance without a namespace
\* changes nothing; with a namespace, the namespace is removed only if
\* nothing but n was in it, and every node other than n keeps its name.
C12_ClearTouchesOnlyTheNode ==
    [][(Called /\ last'.op = "set_namespace" /\ last'.ns = <<>>
          /\ last'.w.dependnode \in scene.nodes)
        => LET h == last'.w.dependnode
               cur == scene.name[h].ns
           IN IF cur = <<>> THEN scene' = scene
              ELSE /\ cur \notin scene'.namespaces
                        => NamespaceContents(scene, cur) = {<<"node", h>>}
                   /\ \A m \in scene.nodes \ {h} :
                         scene'.name[m] = scene.name[m]]_vars

\* C12 (amended): n.namespace = '' on a live instance without a namespace
\* changes nothing; with a namespace, the call returns, the namespace is
\* removed and all it holds moves to the root namespace: n reads '', every
\* node in it or below it loses that prefix (the scene numbering a name that
\* is taken), the namespaces below it move up, and the nodes outside it keep
\* their names.
C12_ClearMergesIntoRoot ==
    [][(Called /\ last'.op = "set_namespace" /\ last'.ns = <<>>
          /\ last'.w.dependnode \in scene.nodes)
        => LET h == last'.w.dependnode
               cur == scene.name[h].ns
           IN IF cur = <<>> THEN scene' = scene /\ last'.exc = "none"
              ELSE /\ last'.exc = "none"
                   /\ GetNamespace(scene', last'.w) = Ok(scene', <<>>)
                   /\ scene'.namespaces =
                         (scene.namespaces \ (Below(scene, cur) \cup {cur}))
                         \cup {Rebase(x, cur, <<>>) : x \in Below(scene, cur)}
                   /\ scene'.nodes = scene.nodes
                   /\ \A m \in scene.nodes :
                         IF IsPrefix(cur, scene.name[m].ns)
                         THEN /\ scene'.name[m].ns = Rebase(scene.name[m].ns, cur, <<>>)
                              /\ scene'.name[m].base = scene.name[m].base
                         ELSE scene'.name[m] = scene.name[m]]_vars

\* the namespace of an instance was cleared while another node was in it
C12_Witness ==
    /\ last.op = "set_namespace" /\ last.ns = <<>> /\ last.exc = "none"
    /\ scene.namespaces = {}
    /\ \E m \in scene.nodes \ {last.w.dependnode} :
          scene.name[m] = [ns |-> <<>>, base |-> "duck", num |-> 1]
    /\ scene.name[last.w.dependnode] = [ns |-> <<>>, base |-> "duck", num |-> 0]

\* what delete() does to the node h and its namespace, sparing the nodes of
\* kept: h leaves the scene; the namespace h was in is removed exactly when it
\* is not the root namespace and holds nothing after the deletion; no other
\* namespace changes and the nodes of kept are as they were
DeleteEffect(h, kept) ==
    LET cur == scene.name[h].ns
    IN /\ last'.exc = "none"
       /\ h \notin scene'.nodes
       /\ cur # <<>> =>
            ((cur \notin scene'.namespaces)
               <=> (NamespaceContents(CmdsDelete(scene, h), cur) = {}))
       /\ scene'.namespaces \ {cur} = scene.namespaces \ {cur}
       /\ \A m \in kept :
             /\ m \in scene'.nodes
             /\ scene'.name[m] = scene.name[m]
             /\ scene'.parent[m] = scene.parent[m]
             /\ scene'.attr[m] = scene.attr[m]

\* C13 (as claimed): delete() on a live instance removes its node, removes
\* the namespace the node was in exactly when that namespace has a name and
\* holds nothing after the deletion, and leaves every other node unchanged.
C13_DeleteSparesEveryOtherNode ==
    [][(Called /\ last'.op = "delete" /\ last'.w.dependnode \in scene.nodes)
        => DeleteEffect(last'.w.dependnode,
                        scene.nodes \ {last'.w.dependnode})]_vars

\* C13 (amended): delete() on a live instance removes its node and the nodes
\* below it in the DAG, removes the namespace the node was in exactly when
\* that namespace has a name and holds nothing after the deletion, and leaves
\* every node that is not below the deleted one unchanged.
C13_DeleteSparesNodesNotBelow ==
    [][(Called /\ last'.op = "delete" /\ last'.w.dependnode \in scene.nodes)
        => /\ DeleteEffect(last'.w.dependnode,
                           scene.nodes \ Descendants(scene, {last'.w.dependnode}))
           /\ scene'.nodes =
                 scene.nodes \ Descendants(scene, {last'.w.dependnode})]_vars

\* a node was deleted from a namespace that another node keeps alive
C13_Witness ==
    /\ last.op = "delete" /\ last.exc = "none"
    /\ last.w.dependnode \notin scene.nodes
    /\ \E m \in scene.nodes : scene.name[m].ns = <<"ns">>
    /\ scene.namespaces = {<<"ns">>}
    /\ scene.created = 2

\* the name n.name = v asks for: v, or v and the default name when v ends
\* with the separator
Target(v) == IF EndsWithSep(v) THEN AppendDefault(v) ELSE v

\* C14 (as claimed): after n.name = v returns on a live instance, n.name
\* reads v (v and 'grp' when v ends with ':') and n.namespace the namespace
\* of v; a namespace the node is renamed out of, to a name without one, is
\* removed.
C14_RenameReadsBack ==
    [][(Called /\ last'.op = "rename" /\ last'.exc = "none"
          /\ last'.w.dependnode \in scene.nodes)
        => LET n == last'.w
               t == Target(last'.r.v)
               old == scene.name[n.dependnode].ns
           IN /\ GetName(scene', n) = Ok(scene', t)
              /\ GetNamespace(scene', n) = Ok(scene', t.ns)
              /\ (old # <<>> /\ t.ns = <<>>) => old \notin scene'.namespaces]_vars

\* C14 (amended): after n.name = v returns on a live instance, n.name reads
\* v (v and 'grp' when v ends with ':') unless another node has that name,
\* and then it reads that name with a number the scene chose; n.namespace
\* reads the namespace of v; a namespace the node is renamed out of, to a name
\* without one, is removed.
C14_RenameReadsBackUnlessTaken ==
    [][(Called /\ last'.op = "rename" /\ last'.exc = "none"
          /\ last'.w.dependnode \in scene.nodes)
        => LET n == last'.w
               h == n.dependnode
               t == Target(last'.r.v)
               old == scene.name[h].ns
               taken == \E m \in scene'.nodes \ {h} : scene'.name[m] = OwnName(t)
           IN /\ ~taken => GetName(scene', n) = Ok(scene', t)
              /\ taken => /\ scene'.name[h].num > 0
                          /\ [scene'.name[h] EXCEPT !.num = 0] = OwnName(t)
              /\ GetNamespace(scene', n) = Ok(scene', t.ns)
              /\ (old # <<>> /\ t.ns = <<>>) => old \notin scene'.namespaces]_vars

\* a node in a namespace was renamed to the bare namespace and took the
\* default name in it
C14_Witness ==
    /\ last.op = "rename" /\ last.exc = "none"
    /\ last.r.v = Str(<<"ns">>, "", 0)
    /\ GetName(scene, last.w) = Ok(scene, Str(<<"ns">>, DEFAULT_NAME, 0))
    /\ \E m \in scene.nodes \ {last.w.dependnode} : scene.name[m].ns = <<"ns">>

\* the registry a call works on: the factory's, or the empty dict of a new
\* factory
Before == IF last'.op = "factory" THEN EmptyRegistry ELSE registry

\* the names of the loaded classes that are A or below A
NamesUnder(a) == {ClassName(c) : c \in LoadedUnder(a)}

\* C15 (as claimed): after register(A), or Factory(A), every key written is
\* the name of exactly one class that is A or a loaded subclass of A and maps
\* to it, the other keys are as before, and registering A again changes
\* nothing.
C15_KeyNamesExactlyOneClass ==
    [][(Called /\ last'.op \in {"register", "factory"} /\ last'.s \in Loaded)
        => LET a == last'.s
           IN /\ \A k \in NamesUnder(a) :
                    /\ Cardinality({c \in LoadedUnder(a) : ClassName(c) = k}) = 1
                    /\ registry'[k] \in LoadedUnder(a)
                    /\ ClassName(registry'[k]) = k
              /\ \A k \in RegKeys \ NamesUnder(a) : registry'[k] = Before[k]
              /\ Register(registry', loaded', a) = registry']_vars

\* C15 (amended): after register(A), or Factory(A), every key written is the
\* name of the class it maps to, which is A or a loaded subclass of A (one of
\* them, when several have that name); A's name maps to A, overwriting what
\* it mapped to, unless a subclass of A has A's name; the other keys are as
\* before, and registering A again changes nothing.
C15_KeyNamesItsClass ==
    [][(Called /\ last'.op \in {"register", "factory"} /\ last'.s \in Loaded)
        => LET a == last'.s
           IN /\ \A k \in NamesUnder(a) :
                    /\ registry'[k] \in LoadedUnder(a)
                    /\ ClassName(registry'[k]) = k
              /\ (\A c \in LoadedUnder(a) \ {a} : ClassName(c) # ClassName(a))
                    => registry'[ClassName(a)] = a
              /\ \A k \in RegKeys \ NamesUnder(a) : registry'[k] = Before[k]
              /\ Register(registry', loaded', a) = registry']_vars

\* a redefined class was registered over the entry of the class it redefines
C15_Witness ==
    /\ last.op = "register" /\ last.s = "AssetR"
    /\ registry["Asset"] = "AssetR"
    /\ registry["Prop"] = "Prop" /\ registry["System"] = "System"

\* C16: serialize() on a live instance of class C returns a mapping whose
\* type is C's name and changes nothing in the scene; C.deserialize(name,
\* parent), with or without the mapping of serialize as extra data, has the
\* effect and the result of C.create(name, parent): an instance of class C.
C16_DeserializeIsCreate ==
    [][Called =>
        /\ (last'.op = "serialize" /\ last'.w.dependnode \in scene.nodes)
              => /\ last'.exc = "none"
                 /\ last'.str = ClassName(last'.w.cls)
                 /\ scene' = scene
        /\ last'.op = "deserialize"
              => LET out == Create(scene, last'.s, last'.r.v, World)
                 IN /\ last'.exc = out.exc
                    /\ scene' = out.g
                    /\ out.exc = "none" =>
                          (last'.inst = out.ret /\ last'.inst.cls = last'.s)]_vars

\* C17: the identity, the hash and the result of == of the instances the
\* caller holds are fixed at construction: no step changes them, whether the
\* node is renamed or deleted; == returns (never raises) with the comparison
\* of class and identity even on an instance whose node is gone, and an
\* instance that is a key of a dict is still found in it after any step.
C17_IdentityOutlivesNode ==
    [][/\ wrappers' \subseteq wrappers \cup {last'.inst}
       /\ \A m \in wrappers : m.str = Uuid(m.dependnode) /\ Hash(m)' = Hash(m)
       /\ \A n, m \in wrappers : Eq(n, m)' = Eq(n, m)
       /\ \A m \in wrappers : Lookup(keyed, m) => Lookup(keyed, m)'
       /\ (Called /\ last'.op = "eq")
             => /\ last'.exc = "none"
                /\ last'.bool <=> (last'.w.cls = last'.other.cls
                                     /\ last'.w.str = last'.other.str)
       /\ (Called /\ last'.op = "key_insert")
             => (last.exc = "none" /\ Lookup(keyed, last.w))']_vars

\* an instance whose node was deleted is a key of the dict and was found
\* equal to an instance of the same class and identity
C17_Witness ==
    /\ last.op = "eq" /\ last.exc = "none" /\ last.bool
    /\ last.w.dependnode \notin scene.nodes
    /\ last.other.cls = last.w.cls /\ last.other.str = last.w.str
    /\ Lookup(keyed, last.w)

\* the instance w is stale and the node h was made, by w's class, after w's
\* node
Recreated(w, h) ==
    /\ w \in wrappers /\ w.dependnode \notin scene.nodes
    /\ h \in scene.nodes /\ h > w.dependnode /\ made[h] = w.cls

\* what a step does about stale instances, whatever the names in the scene:
\* a stale instance stays stale; a node created under a name no live node
\* bears gets that name; every access through a stale instance that needs
\* the live node raises the stale-reference failure and changes nothing; a
\* created instance has the identity of no stale instance and is not equal
\* to one
StalenessIsPermanent ==
    /\ \A w \in wrappers :
          w.dependnode \notin scene.nodes => w.dependnode \notin scene'.nodes
    /\ (Called /\ last'.op = "create" /\ last'.exc = "none"
          /\ Matches(scene, last'.r.v) = {})
          => PartialPathName(scene', last'.inst.dependnode) = last'.r.v
    /\ (Called /\ last'.op \in LiveAccess /\ last'.w.dependnode \notin scene.nodes)
          => (last'.exc = "stale" /\ scene' = scene)
    /\ (Called /\ last'.op = "create" /\ last'.exc = "none")
          => \A w \in wrappers :
                w.dependnode \notin scene.nodes
                   => /\ last'.inst.str # w.str
                      /\ last'.inst.dependnode # w.dependnode
                      /\ ~Eq(last'.inst, w) /\ ~Eq(w, last'.inst)

AllStale(G, w) ==
    /\ \A out \in {GetName(G, w), GetNamespace(G, w), Nodename(G, w), Repr(G, w),
                    Delete(G, w), Export(G, w, TRUE), Rename(G, w, Duck, TRUE),
                    SetNamespace(G, w, <<"zoo">>, TRUE)} : out.exc = "stale"
    /\ IsSystemClass(w.cls) =>
          \A out \in {GetType(G, w), SetType(G, w, "Ghost"), CreateAttributes(G, w)} :
             out.exc = "stale"

\* C19: two instances a and b of one node observe the same scene.  When
\* the call before was made through a and returned, a call through b (another
\* instance of the same node) reads what the scene now holds: after a rename,
\* b.name is the node's name, with the base name asked for, and b.namespace
\* the namespace asked for; after a namespace assignment, b.namespace is the
\* node's namespace (the one assigned, or the root namespace); after a type
\* assignment, b.type is the tag assigned; after a.delete(), every access
\* through b that needs the live node raises the stale-reference failure.
\* At any time the instances of one node read the same name, namespace and
\* tag.
C19_SharedNodeSharedState ==
    [][/\ LET a == last.w
              b == last'.w
              h == last.w.dependnode
          IN (Called /\ h \in Handles /\ b # a /\ b.dependnode = h
                /\ last.exc = "none")
             => /\ (last.op = "rename" /\ last'.op = "name")
                      => /\ last'.exc = "none"
                         /\ last'.name = PartialPathName(scene, h)
                         /\ last'.name.base = Target(last.r.v).base
                         /\ last'.name.ns = Target(last.r.v).ns
                /\ (last.op = "rename" /\ last'.op = "namespace")
                      => (last'.exc = "none" /\ last'.rns = Target(last.r.v).ns)
                /\ (last.op = "set_namespace" /\ last'.op = "namespace")
                      => /\ last'.exc = "none"
                         /\ last'.rns = scene.name[h].ns
                         /\ last'.rns \in {last.ns, <<>>}
                /\ (last.op = "set_namespace" /\ last'.op = "name")
                      => (last'.exc = "none" /\ last'.name.ns = scene.name[h].ns)
                /\ (last.op = "set_type" /\ last'.op = "type")
                      => (last'.exc = "none" /\ last'.str = last.s)
                /\ (last.op = "delete" /\ last'.op \in LiveAccess)
                      => (last'.exc = "stale" /\ scene' = scene)
       /\ (Called /\ last'.op = "delete" /\ last'.exc = "none")
             => \A m \in wrappers :
                   m.dependnode = last'.w.dependnode => AllStale(scene', m)
       /\ \A n, m \in wrappers :
             n.dependnode = m.dependnode
                => /\ GetName(scene, n) = GetName(scene, m)
                   /\ GetNamespace(scene, n) = GetNamespace(scene, m)
                   /\ (IsSystemClass(n.cls) /\ IsSystemClass(m.cls))
                         => GetType(scene, n) = GetType(scene, m)]_vars

\* an Asset's tag was set to 'Ghost' through the instance create returned,
\* and a System instance of the same node read 'Ghost' as its type
C19_Witness ==
    /\ last.op = "type" /\ last.exc = "none" /\ last.str = "Ghost"
    /\ last.w.cls = "System" /\ made[last.w.dependnode] = "Asset"
    /\ \E a \in wrappers :
          a.cls = "Asset" /\ a.dependnode = last.w.dependnode /\ a # last.w

====
